---- MODULE Spec2Model ----
(***************************************************************************)
(* The destructor stack of include/raii_in_c.h: one function frame that    *)
(* declares the stack with MAKE_DESTRUCTOR_STACK(n) and then uses          *)
(* PUSH_DESTRUCTOR, BEGIN_SCOPE, END_SCOPE, END_SCOPE_AND_BREAK and        *)
(* END_SCOPE_AND_RETURN in any order C's block structure allows.           *)
(*                                                                         *)
(* Pointers into destructor_label_addresses are modelled as integer        *)
(* indices relative to the array (the array itself is index 0), so         *)
(* next_label_address is the cursor and a scope's                          *)
(* destructor_label_address_stack_end is (marker - 1).  assert() is        *)
(* modelled as compiled in (no NDEBUG): a failed assertion aborts.         *)
(***************************************************************************)
EXTENDS Integers, Sequences, FiniteSets

\* ---- bounds of the model ----
MaxCapacity == 3    \* largest n given to MAKE_DESTRUCTOR_STACK
MaxPushes == 3      \* PUSH_DESTRUCTOR executions in one frame
MaxDepth == 2       \* nested blocks holding a BEGIN_SCOPE

\* the labels destructor ## lineno of the frame's PUSH_DESTRUCTOR sites
Labels == {"destructorA", "destructorB"}

\* an array slot that was never written (the array is declared uninitialised)
Uninit == "uninitialised"

\* the value return_label_address is initialised with
NULL == "NULL"

\* the three macros that expand END_SCOPE__, each with its own return label
Sites == {"END_SCOPE", "END_SCOPE_AND_BREAK", "END_SCOPE_AND_RETURN"}

VARIABLES
  capacity,                            \* n of MAKE_DESTRUCTOR_STACK(n)
  destructor_label_addresses,          \* [0..n-1 -> label]
  next_label_address,                  \* index of the next free slot (cursor)
  return_label_address,                \* NULL or the site whose return label it holds
  destructor_label_address_stack_end,  \* the variables declared by BEGIN_SCOPE, innermost last
  pc,                                  \* where control is
  site,                                \* the END_SCOPE__ expansion control is in
  dtor,                                \* the destructor label control is at, when pc = "dtor"
  \* ---- history (not read by the program) ----
  pushLog,      \* per executed push: its label and how many actions had run before it
  execLog,      \* per executed action body: the label run and the push it belongs to
  slotPush,     \* per slot: the push (index into pushLog) that wrote it last
  dtorPush,     \* the push whose action is running, when pc = "dtor"
  markedAt,     \* per BEGIN_SCOPE variable: number of pushes done when it was taken
  cursorAtStart,\* cursor when the current unwind began
  endAtStart,   \* stack_end the current unwind began with
  execAtStart,  \* Len(execLog) when the current unwind began
  afterUnwind,  \* the last completed operation was an unwind to the marker still visible
  repeated,     \* the current unwind began in such a state
  jumped        \* control has jumped into a block past its BEGIN_SCOPE

prog == <<capacity, destructor_label_addresses, next_label_address,
          return_label_address, destructor_label_address_stack_end, pc, site, dtor>>
hist == <<pushLog, execLog, slotPush, dtorPush, markedAt, cursorAtStart,
          endAtStart, execAtStart, afterUnwind, repeated, jumped>>
vars == <<prog, hist>>

Last(s) == s[Len(s)]
Front(s) == SubSeq(s, 1, Len(s) - 1)

\* ---- the expressions of the macros ----

\* line 21: assert(destructor_label_addresses <= next_label_address)
PushLowerAssert(next) == 0 <= next

\* (variant: the capacity check lets the cursor equal the end of the array)
PushCapacityAssertInclusive(n, next) == 0 + n >= next

\* line 22: assert(destructor_label_addresses + sizeof .../sizeof ...[0] > next_label_address)
PushCapacityAssert(n, next) == 0 + n > next

\* (variant: the store goes through the array, not through the pointer)
PushSlotAtBase(next) == 0

\* line 23: the slot written by *next_label_address++ = ...
PushSlot(next) == next

\* (variant: the store does not advance the pointer)
PushNoAdvance(next) == next

\* line 23: next_label_address after *next_label_address++ = ...
PushAdvance(next) == next + 1

\* (variant: the jump over the action body is missing)
PushFallsIntoBody == "dtor"

\* line 24: goto after_destructor ## lineno, the statement after the push
PushGoto == "run"

\* (variant: the marker is the cursor itself, not the slot below it)
ScopeEndAtCursor(next) == next

\* line 33: destructor_label_address_stack_end = next_label_address - 1
ScopeEnd(next) == next - 1

\* (variant: the return leaves the scope's stack_end as it is)
ReturnScopeEndKept(old) == old

\* (variant: the return resets stack_end to the array, not to the slot below it)
ReturnScopeEndAtBase(old) == 0

\* line 46: destructor_label_address_stack_end = destructor_label_addresses - 1
\* (the value the variable held before is discarded)
ReturnScopeEnd(old) == 0 - 1

\* (variant: the assignment of the return label is missing)
ReturnLabelKept(s, old) == old

\* line 35: return_label_address = &&return ## lineno, for the expansion at site s
ReturnLabel(s, old) == s

\* (variant: the assertion also accepts a stack_end equal to the cursor)
UnwindAssertInclusive(end, next) == end <= next

\* (variant: the assertion demands at least one action above stack_end)
UnwindAssertNonEmpty(end, next) == end + 1 < next

\* line 36: assert(destructor_label_address_stack_end < next_label_address)
UnwindAssert(end, next) == end < next

\* (variant: the loop test compares the cursor itself with stack_end)
UnwindMoreNoAdjust(end, next) == next # end

\* line 36: if (next_label_address - 1 != destructor_label_address_stack_end)
UnwindMore(end, next) == next - 1 # end

\* line 37: destructor_label_address = --next_label_address
PreDecrement(next) == next - 1

\* (variant: the assertion after the decrement rejects the first slot)
PopAssertAboveBase(dla) == 0 < dla

\* line 38: assert(destructor_label_addresses <= destructor_label_address)
PopAssert(dla) == 0 <= dla

\* (variant: the jump goes through the first slot of the array)
PopSlotAtBase(dla) == 0

\* line 39: the slot read by goto *(*destructor_label_address)
PopSlot(dla) == dla

\* ---- MAKE_DESTRUCTOR_STACK(n) ----
Init ==
  /\ capacity \in 0..MaxCapacity
  /\ destructor_label_addresses = [i \in 0..(capacity - 1) |-> Uninit]
  /\ return_label_address = NULL
  /\ next_label_address = 0
  /\ destructor_label_address_stack_end = <<>>
  /\ pc = "run"
  /\ site = "NONE"
  /\ dtor = Uninit
  /\ pushLog = <<>>
  /\ execLog = <<>>
  /\ slotPush = [i \in 0..(capacity - 1) |-> 0]
  /\ dtorPush = 0
  /\ markedAt = <<>>
  /\ cursorAtStart = 0
  /\ endAtStart = 0
  /\ execAtStart = 0
  /\ afterUnwind = FALSE
  /\ repeated = FALSE
  /\ jumped = FALSE

\* ---- PUSH_DESTRUCTOR(...) at the site with label l ----
PushDestructor(l) ==
  /\ pc = "run"
  /\ Len(pushLog) < MaxPushes
  /\ afterUnwind' = FALSE
  /\ IF PushLowerAssert(next_label_address)
        /\ PushCapacityAssert(capacity, next_label_address)
     THEN /\ destructor_label_addresses' =
               [destructor_label_addresses EXCEPT ![PushSlot(next_label_address)] = l]
          /\ next_label_address' = PushAdvance(next_label_address)
          /\ pushLog' = Append(pushLog, [label |-> l, execsBefore |-> Len(execLog)])
          /\ slotPush' = [slotPush EXCEPT ![PushSlot(next_label_address)] = Len(pushLog) + 1]
          /\ pc' = PushGoto
          \* control is at destructor ## lineno only if line 24 does not jump past it
          /\ dtor' = IF pc' = "dtor" THEN l ELSE dtor
          /\ dtorPush' = IF pc' = "dtor" THEN Len(pushLog) + 1 ELSE dtorPush
     ELSE /\ pc' = "aborted"
          /\ UNCHANGED <<destructor_label_addresses, next_label_address, pushLog,
                         slotPush, dtor, dtorPush>>
  /\ UNCHANGED <<jumped, capacity, return_label_address, destructor_label_address_stack_end,
                 site, execLog, markedAt, cursorAtStart, endAtStart,
                 execAtStart, repeated>>

\* ---- BEGIN_SCOPE in a newly entered block ----
BeginScope ==
  /\ pc = "run"
  /\ Len(destructor_label_address_stack_end) < MaxDepth
  /\ destructor_label_address_stack_end' =
        Append(destructor_label_address_stack_end, ScopeEnd(next_label_address))
  /\ markedAt' = Append(markedAt, Len(pushLog))
  /\ afterUnwind' = FALSE
  /\ UNCHANGED <<jumped, capacity, destructor_label_addresses, next_label_address,
                 return_label_address, pc, site, dtor, pushLog, execLog, slotPush,
                 dtorPush, cursorAtStart, endAtStart, execAtStart, repeated>>

\* ---- control leaves the innermost block that holds a BEGIN_SCOPE ----
LeaveBlock ==
  /\ pc = "run"
  /\ Len(destructor_label_address_stack_end) > 0
  /\ destructor_label_address_stack_end' = Front(destructor_label_address_stack_end)
  /\ markedAt' = Front(markedAt)
  /\ afterUnwind' = FALSE
  /\ UNCHANGED <<jumped, capacity, destructor_label_addresses, next_label_address,
                 return_label_address, pc, site, dtor, pushLog, execLog, slotPush,
                 dtorPush, cursorAtStart, endAtStart, execAtStart, repeated>>

\* ---- line 35: return_label_address = &&return ## lineno, reached with the
\* ---- innermost stack_end variable holding `end`
StartUnwind(s, end) ==
  /\ pc = "run"
  /\ Len(destructor_label_address_stack_end) > 0
  /\ destructor_label_address_stack_end' =
        [destructor_label_address_stack_end
           EXCEPT ![Len(destructor_label_address_stack_end)] = end]
  /\ return_label_address' = ReturnLabel(s, return_label_address)
  /\ site' = s
  /\ pc' = "loop"
  /\ cursorAtStart' = next_label_address
  /\ endAtStart' = end
  /\ execAtStart' = Len(execLog)
  /\ repeated' = afterUnwind
  /\ UNCHANGED <<jumped, capacity, destructor_label_addresses, next_label_address, dtor,
                 pushLog, execLog, slotPush, dtorPush, markedAt, afterUnwind>>

\* ---- END_SCOPE ----
EndScope ==
  StartUnwind("END_SCOPE", Last(destructor_label_address_stack_end))

\* ---- END_SCOPE_AND_BREAK: if (({END_SCOPE 1;})) break; else break ----
EndScopeAndBreak ==
  StartUnwind("END_SCOPE_AND_BREAK", Last(destructor_label_address_stack_end))

\* ---- END_SCOPE_AND_RETURN(ret): the comma expression first resets stack_end ----
EndScopeAndReturn ==
  StartUnwind("END_SCOPE_AND_RETURN",
              ReturnScopeEnd(Last(destructor_label_address_stack_end)))

\* ---- lines 36-39: one pass through the return label of END_SCOPE__ ----
UnwindStep ==
  /\ pc = "loop"
  /\ LET end == Last(destructor_label_address_stack_end)
         dla == PreDecrement(next_label_address)
     IN IF ~UnwindAssert(end, next_label_address)
        THEN /\ pc' = "aborted"
             /\ UNCHANGED <<next_label_address, dtor, dtorPush>>
        ELSE IF ~UnwindMore(end, next_label_address)
        THEN /\ pc' = "done"
             /\ UNCHANGED <<next_label_address, dtor, dtorPush>>
        ELSE /\ next_label_address' = dla
             /\ IF ~PopAssert(dla)
                THEN /\ pc' = "aborted"
                     /\ UNCHANGED <<dtor, dtorPush>>
                ELSE IF PopSlot(dla) \notin DOMAIN destructor_label_addresses
                        \/ destructor_label_addresses[PopSlot(dla)] = Uninit
                \* goto through a slot that holds no label: no defined behaviour
                THEN /\ pc' = "crashed"
                     /\ UNCHANGED <<dtor, dtorPush>>
                ELSE /\ pc' = "dtor"
                     /\ dtor' = destructor_label_addresses[PopSlot(dla)]
                     /\ dtorPush' = slotPush[PopSlot(dla)]
  /\ UNCHANGED <<jumped, capacity, destructor_label_addresses, return_label_address,
                 destructor_label_address_stack_end, site, pushLog, execLog, slotPush,
                 markedAt, cursorAtStart, endAtStart, execAtStart, afterUnwind, repeated>>

\* ---- lines 25-27: the action body, then goto *return_label_address ----
RunDestructor ==
  /\ pc = "dtor"
  /\ execLog' = Append(execLog, [label |-> dtor, push |-> dtorPush])
  /\ IF return_label_address = NULL
     THEN pc' = "crashed" /\ UNCHANGED site
     ELSE pc' = "loop" /\ site' = return_label_address
  /\ dtor' = Uninit
  /\ dtorPush' = 0
  /\ UNCHANGED <<jumped, capacity, destructor_label_addresses, next_label_address,
                 return_label_address, destructor_label_address_stack_end,
                 pushLog, slotPush, markedAt, cursorAtStart, endAtStart,
                 execAtStart, afterUnwind, repeated>>

\* the history of an unwind is kept only while control is in it
ForgetUnwind ==
  /\ cursorAtStart' = 0
  /\ endAtStart' = 0
  /\ execAtStart' = 0
  /\ repeated' = FALSE

\* ---- line 40: END_SCOPE is finished, control falls to the next statement ----
FallThrough ==
  /\ pc = "done"
  /\ site = "END_SCOPE"
  /\ pc' = "run"
  /\ site' = "NONE"
  /\ afterUnwind' = TRUE
  /\ ForgetUnwind
  /\ UNCHANGED <<jumped, capacity, destructor_label_addresses, next_label_address,
                 return_label_address, destructor_label_address_stack_end, dtor,
                 pushLog, execLog, slotPush, dtorPush, markedAt>>

\* ---- line 44: break leaves the enclosing loop, and with it the k innermost
\* ---- blocks that hold a BEGIN_SCOPE
Break(k) ==
  /\ pc = "done"
  /\ site = "END_SCOPE_AND_BREAK"
  /\ pc' = "run"
  /\ destructor_label_address_stack_end' =
        SubSeq(destructor_label_address_stack_end, 1,
               Len(destructor_label_address_stack_end) - k)
  /\ markedAt' = SubSeq(markedAt, 1, Len(markedAt) - k)
  /\ site' = "NONE"
  /\ afterUnwind' = (k = 0)
  /\ ForgetUnwind
  /\ UNCHANGED <<jumped, capacity, destructor_label_addresses, next_label_address,
                 return_label_address, dtor, pushLog, execLog, slotPush, dtorPush>>

\* ---- line 46: return (ret) ----
Return ==
  /\ pc = "done"
  /\ site = "END_SCOPE_AND_RETURN"
  /\ pc' = "returned"
  /\ UNCHANGED <<capacity, destructor_label_addresses, next_label_address,
                 return_label_address, destructor_label_address_stack_end, site, dtor,
                 hist>>

\* ---- a block holding a BEGIN_SCOPE is entered by a jump past line 33, so its
\* ---- stack_end variable is declared (line 32) but holds an indeterminate value
StaleEnds == (0 - 2)..capacity

EnterScopeUninitialized(v) ==
  /\ pc = "run"
  /\ Len(destructor_label_address_stack_end) < MaxDepth
  /\ ~jumped
  /\ jumped' = TRUE
  /\ destructor_label_address_stack_end' = Append(destructor_label_address_stack_end, v)
  /\ markedAt' = Append(markedAt, 0 - 1)
  /\ afterUnwind' = FALSE
  /\ UNCHANGED <<capacity, destructor_label_addresses, next_label_address,
                 return_label_address, pc, site, dtor, pushLog, execLog, slotPush,
                 dtorPush, cursorAtStart, endAtStart, execAtStart, repeated>>

Next ==
  \/ \E l \in Labels : PushDestructor(l)
  \/ BeginScope
  \/ LeaveBlock
  \/ EndScope
  \/ EndScopeAndBreak
  \/ EndScopeAndReturn
  \/ UnwindStep
  \/ RunDestructor
  \/ FallThrough
  \/ \E k \in 0..Len(destructor_label_address_stack_end) : Break(k)
  \/ Return

\* the frame uses the macros as C's block structure lets it
Spec == Init /\ [][Next]_vars

NextUnbalanced ==
  \/ \E l \in Labels : PushDestructor(l)
  \/ BeginScope
  \/ LeaveBlock
  \/ EndScope
  \/ UnwindStep
  \/ RunDestructor
  \/ FallThrough
  \/ \E v \in StaleEnds : EnterScopeUninitialized(v)

\* a frame of PUSH_DESTRUCTOR, BEGIN_SCOPE and END_SCOPE that may also, once,
\* jump into a block past its BEGIN_SCOPE
SpecUnbalanced == Init /\ [][NextUnbalanced]_vars

\* the unwind loop and the action bodies are straight-line code of one thread:
\* once control is in them it keeps going (each action body is taken to end)
SpecFair == Spec /\ WF_vars(UnwindStep) /\ WF_vars(RunDestructor)

TypeOK ==
  /\ capacity \in 0..MaxCapacity
  /\ pc \in {"run", "loop", "dtor", "done", "returned", "aborted", "crashed"}
  /\ site \in Sites \cup {"NONE"}
  /\ return_label_address \in Sites \cup {NULL}
  /\ Len(pushLog) <= MaxPushes
  /\ Len(markedAt) = Len(destructor_label_address_stack_end)

\* ---- vocabulary of the properties ----

\* control is in, or has just left, the unwind loop of an END_SCOPE__ expansion
InUnwind == site \in Sites /\ pc # "run"

\* the unwind has left its loop (line 40 reached)
Unwound == InUnwind /\ pc \in {"done", "returned"}

\* an unwind to the scope's marker, a full unwind
ToMarker == site \in {"END_SCOPE", "END_SCOPE_AND_BREAK"}
Full == site = "END_SCOPE_AND_RETURN"

\* an assertion failed, or control was lost
Failed == pc \in {"aborted", "crashed"}

\* number of pushes executed, of actions executed, of actions executed by the
\* current unwind
Pushed == Len(pushLog)
Executed == Len(execLog)
ExecutedHere == Len(execLog) - execAtStart

\* the i-th action executed ran the body the push it belongs to registered
RanOwnBody(i) ==
  /\ execLog[i].push \in 1..Pushed
  /\ execLog[i].label = pushLog[execLog[i].push].label

\* the pushes whose action had not been executed when the current unwind began
PendingAtStart ==
  {p \in 1..Pushed : \A i \in 1..execAtStart : execLog[i].push # p}

\* C1: n pushes a1..aN (N <= n) and then one full unwind execute exactly
\* aN, ..., a1, each once, and leave the cursor at 0.
C1_FullUnwindReversesPushes ==
  (InUnwind /\ Full /\ execAtStart = 0) =>
     /\ ~Failed
     /\ Unwound =>
          /\ next_label_address = 0
          /\ Executed = Pushed
          /\ Pushed <= capacity
          /\ \A i \in 1..Executed :
                execLog[i].push = Pushed + 1 - i /\ RanOwnBody(i)

C1_Witness ==
  /\ pc = "returned"
  /\ execAtStart = 0
  /\ Pushed = 3
  /\ pushLog[1].label # pushLog[2].label

\* C2: a marker taken after the first K pushes, J more pushes, then an unwind to
\* the marker (END_SCOPE or END_SCOPE_AND_BREAK): exactly the last J actions are
\* executed, in reverse order of push, the cursor is K, and the first K actions
\* are still pending in slots 0..K-1.
C2_ScopeUnwindRunsLastJ ==
  (InUnwind /\ ToMarker /\ execAtStart = 0 /\ Last(markedAt) >= 0) =>
     LET K == Last(markedAt) IN
     /\ ~Failed
     /\ Unwound =>
          /\ next_label_address = K
          /\ Executed = Pushed - K
          /\ \A i \in 1..Executed :
                execLog[i].push = Pushed + 1 - i /\ RanOwnBody(i)
          /\ \A p \in 1..K :
                /\ destructor_label_addresses[p - 1] = pushLog[p].label
                /\ slotPush[p - 1] = p

C2_Witness ==
  /\ pc = "done"
  /\ site = "END_SCOPE_AND_BREAK"
  /\ execAtStart = 0
  /\ Last(markedAt) = 1
  /\ Executed = 2

\* C3: after an unwind to a marker has executed some actions, a full unwind
\* executes exactly the actions still pending (as many as the cursor counts), in
\* reverse order of push, none of the earlier ones again, and leaves the cursor
\* at 0.
C3_FullUnwindAfterScopeUnwind ==
  (InUnwind /\ Full /\ execAtStart > 0) =>
     /\ ~Failed
     /\ Unwound =>
          /\ next_label_address = 0
          /\ ExecutedHere = cursorAtStart
          /\ ExecutedHere = Cardinality(PendingAtStart)
          /\ \A i \in (execAtStart + 1)..Executed :
                execLog[i].push \in PendingAtStart /\ RanOwnBody(i)
          /\ \A i, j \in (execAtStart + 1)..Executed :
                i < j => execLog[i].push > execLog[j].push

C3_Witness ==
  /\ pc = "returned"
  /\ capacity = 3
  /\ repeated
  /\ execAtStart = 1
  /\ cursorAtStart = 2
  /\ Executed = 3

\* C4: no pushed action is ever executed twice, and when the frame has returned
\* every pushed action has been executed exactly once, also when slots freed by
\* an unwind were written again.
C4_ExactlyOnce ==
  /\ \A i, j \in 1..Executed : i # j => execLog[i].push # execLog[j].push
  /\ \A i \in 1..Executed : RanOwnBody(i)
  /\ pc = "returned" =>
        \A p \in 1..Pushed : \E i \in 1..Executed : execLog[i].push = p

C4_Witness ==
  /\ pc = "returned"
  /\ capacity > 0
  /\ Pushed > capacity
  /\ execAtStart > 0
  /\ ExecutedHere > 0

\* C5: a PUSH_DESTRUCTOR reached with cursor = capacity fails its assertion
\* before anything is written: no slot changes, no pending action is lost, the
\* cursor stays; with cursor < capacity it stores the action's label in the slot
\* at the cursor and advances the cursor by exactly 1.
C5_PushChecksCapacity ==
  [][\A l \in Labels :
       PushDestructor(l) =>
         IF next_label_address = capacity
         THEN /\ pc' = "aborted"
              /\ UNCHANGED <<destructor_label_addresses, next_label_address,
                             pushLog, execLog>>
         ELSE /\ pc' = "run"
              /\ next_label_address < capacity
              /\ next_label_address' = next_label_address + 1
              /\ destructor_label_addresses' =
                    [destructor_label_addresses EXCEPT ![next_label_address] = l]]_vars

C5_Witness ==
  /\ pc = "aborted"
  /\ site = "NONE"
  /\ capacity = 2
  /\ next_label_address = capacity
  /\ Pushed = 2

\* C6: in every reachable state 0 <= cursor <= capacity.
C6_CursorInRange ==
  /\ 0 <= next_label_address
  /\ next_label_address <= capacity

C6_Witness ==
  /\ pc = "run"
  /\ capacity = 2
  /\ next_label_address = capacity
  /\ Executed > 0
  /\ Len(destructor_label_address_stack_end) = 2

\* C7: END_SCOPE_AND_RETURN inside any nesting of scopes executes every pending
\* action, from slot cursor-1 down to slot 0, also those pushed before the
\* markers of the enclosing scopes, and ends with cursor = 0.
C7_ReturnIgnoresMarkers ==
  (InUnwind /\ Full) =>
     /\ ~Failed
     /\ Unwound =>
          /\ next_label_address = 0
          /\ ExecutedHere = cursorAtStart
          /\ \A i \in 1..cursorAtStart :
                /\ execLog[execAtStart + i].label =
                      destructor_label_addresses[cursorAtStart - i]
                /\ execLog[execAtStart + i].push = slotPush[cursorAtStart - i]

C7_Witness ==
  /\ pc = "returned"
  /\ Len(markedAt) = 2
  /\ markedAt[1] >= 1
  /\ markedAt[2] > markedAt[1]
  /\ cursorAtStart = 3
  /\ ExecutedHere = 3

\* the current unwind is to a marker above the cursor (the marker was passed)
MarkerPassed == cursorAtStart <= endAtStart

\* the current unwind is to the marker the unwind just before it used
DoubleUnwind == repeated

\* C8 as stated: an unwind to a marker that is not an active, still-pending
\* scope (a second unwind to the same marker right after the first, or a marker
\* above the cursor) aborts on an assertion and runs no action.
C8_UnbalancedUnwindIsFatal ==
  (InUnwind /\ ToMarker /\ (DoubleUnwind \/ MarkerPassed)) =>
     /\ pc \in {"loop", "aborted"}
     /\ ExecutedHere = 0

\* C8 as amended: an unwind to a marker above the cursor aborts on the assertion
\* of line 36 and runs no action; a second unwind to the same marker right after
\* the first fails no assertion, runs no action and leaves the cursor as it is.
C8_PassedMarkerIsFatalDoubleUnwindIsNoOp ==
  /\ (InUnwind /\ ToMarker /\ MarkerPassed) =>
        /\ pc \in {"loop", "aborted"}
        /\ ExecutedHere = 0
        /\ next_label_address = cursorAtStart
  /\ (InUnwind /\ ToMarker /\ DoubleUnwind) =>
        /\ pc \in {"loop", "done"}
        /\ ExecutedHere = 0
        /\ next_label_address = cursorAtStart

C8_Witness ==
  /\ pc = "aborted"
  /\ site = "END_SCOPE"
  /\ MarkerPassed
  /\ cursorAtStart = 2
  /\ Executed = 0

\* C9: if a was pushed before b and a was still pending when b was pushed, then
\* b is executed before a, also when the two are executed by different unwinds.
C9_GlobalLifo ==
  \A i \in 1..Executed :
    \A b \in (execLog[i].push + 1)..Pushed :
       (i > pushLog[b].execsBefore) =>
          \E j \in 1..(i - 1) : execLog[j].push = b

C9_Witness ==
  /\ pc = "returned"
  /\ execAtStart > 0
  /\ \E i \in 1..execAtStart : \E j \in (execAtStart + 1)..Executed :
        /\ execLog[i].push > execLog[j].push
        /\ pushLog[execLog[i].push].execsBefore = 0

\* C10: a full unwind begun with cursor = 0 executes no action, fails no
\* assertion and leaves the cursor at 0, so a second full unwind after a first
\* changes nothing more.
C10_FullUnwindOfEmptyStack ==
  (InUnwind /\ Full /\ cursorAtStart = 0) =>
     /\ ~Failed
     /\ pc # "dtor"
     /\ ExecutedHere = 0
     /\ next_label_address = 0

C10_Witness ==
  /\ pc = "returned"
  /\ cursorAtStart = 0
  /\ repeated
  /\ Executed = 2

\* C11: BEGIN_SCOPE only observes: the new marker variable holds cursor - 1,
\* and the cursor, every slot, the markers of the enclosing scopes, the pending
\* actions and return_label_address are as before; no action is executed.
C11_BeginScopeOnlyObserves ==
  [][BeginScope =>
       /\ Len(destructor_label_address_stack_end') =
             Len(destructor_label_address_stack_end) + 1
       /\ Last(destructor_label_address_stack_end') = next_label_address - 1
       /\ Front(destructor_label_address_stack_end') =
             destructor_label_address_stack_end
       /\ pc' = "run"
       /\ UNCHANGED <<next_label_address, destructor_label_addresses, capacity,
                      return_label_address, pushLog, execLog>>]_vars

C11_Witness ==
  /\ pc = "run"
  /\ Len(destructor_label_address_stack_end) = 2
  /\ next_label_address = 2
  /\ Last(destructor_label_address_stack_end) = 1
  /\ Last(markedAt) = Pushed
  /\ Executed = 1

\* the actions an unwind begun at cursor c with stack_end e has to execute
ToExecute == cursorAtStart - (endAtStart + 1)

\* C12: every unwind runs to completion: an unwind to a marker <= cursor ends
\* after exactly cursor - marker action executions, a full unwind after exactly
\* cursor executions (each action body ends and performs no scope operation).
C12_UnwindCompletes ==
  /\ [](InUnwind =>
          /\ ~Failed
          /\ ExecutedHere <= ToExecute
          /\ Unwound => ExecutedHere = ToExecute
          /\ (Unwound /\ Full) => ExecutedHere = cursorAtStart)
  /\ [](pc \in {"loop", "dtor"} => <>(pc = "done"))

C12_Witness ==
  /\ pc = "done"
  /\ site = "END_SCOPE"
  /\ endAtStart = 0
  /\ cursorAtStart = 3
  /\ ExecutedHere = 2

\* a step of an unwind: line 35 (with the reset of line 46 for a full unwind),
\* a pass through the loop of lines 36-39, or an action body
UnwindTaken ==
  \/ EndScope
  \/ EndScopeAndBreak
  \/ EndScopeAndReturn
  \/ UnwindStep
  \/ RunDestructor

\* what a PUSH_DESTRUCTOR step may change: the slot at the cursor and the cursor
PushWritesOnlyItsSlot ==
  /\ \A i \in DOMAIN destructor_label_addresses :
        i # next_label_address =>
           destructor_label_addresses'[i] = destructor_label_addresses[i]
  /\ DOMAIN destructor_label_addresses' = DOMAIN destructor_label_addresses
  /\ next_label_address' \in {next_label_address, next_label_address + 1}
  /\ UNCHANGED <<capacity, return_label_address, destructor_label_address_stack_end>>

\* C13 as stated: push changes only the slot at the cursor and the cursor; an
\* unwind (to a marker or full) changes only the cursor: it writes no slot and
\* no other variable.
C13_UnwindChangesOnlyCursor ==
  [][/\ (\E l \in Labels : PushDestructor(l)) => PushWritesOnlyItsSlot
     /\ UnwindTaken =>
          UNCHANGED <<capacity, destructor_label_addresses, return_label_address,
                      destructor_label_address_stack_end>>]_vars

\* C13 as amended: push changes only the slot at the cursor and the cursor; an
\* unwind writes no slot, and besides the cursor it writes return_label_address
\* (set to the return label of its END_SCOPE__ at line 35) and, for a full
\* unwind, the visible stack_end (reset to the array - 1 at line 46).
C13_UnwindWritesNoSlot ==
  [][/\ (\E l \in Labels : PushDestructor(l)) => PushWritesOnlyItsSlot
     /\ UnwindTaken =>
          /\ UNCHANGED <<capacity, destructor_label_addresses>>
          /\ next_label_address' \in {next_label_address, next_label_address - 1}
          /\ return_label_address' # return_label_address =>
                pc = "run" /\ return_label_address' = site'
          /\ destructor_label_address_stack_end' # destructor_label_address_stack_end =>
                /\ EndScopeAndReturn
                /\ Front(destructor_label_address_stack_end') =
                      Front(destructor_label_address_stack_end)
                /\ Last(destructor_label_address_stack_end') = 0 - 1]_vars

C13_Witness ==
  /\ pc = "done"
  /\ Full
  /\ return_label_address = "END_SCOPE_AND_RETURN"
  /\ Last(destructor_label_address_stack_end) = 0 - 1
  /\ Last(markedAt) = 2
  /\ ExecutedHere = 2
  /\ capacity = 2
  /\ destructor_label_addresses[0] # destructor_label_addresses[1]

\* C14: registration never runs the action: a PUSH_DESTRUCTOR step stores the
\* label and continues after the action body; an action body is executed only
\* when the loop of an END_SCOPE, END_SCOPE_AND_BREAK or END_SCOPE_AND_RETURN has
\* dispatched it; a frame that has begun no unwind has executed no action.
C14_PushDoesNotRunTheAction ==
  /\ [][/\ (\E l \in Labels : PushDestructor(l)) =>
             execLog' = execLog /\ pc' \in {"run", "aborted"}
        /\ execLog' # execLog =>
             /\ pc = "dtor"
             /\ site \in Sites
             /\ cursorAtStart > next_label_address
             /\ Last(execLog').label = destructor_label_addresses[next_label_address]]_vars
  /\ [](return_label_address = NULL => execLog = <<>>)
  /\ [](pc = "dtor" => site \in Sites)

C14_Witness ==
  /\ pc = "run"
  /\ return_label_address = NULL
  /\ Pushed = 3
  /\ next_label_address = 3
  /\ Executed = 0
  /\ Len(destructor_label_address_stack_end) = 2

\* C15: an action returns to the unwind that dispatched it: whenever control is
\* in an action body, return_label_address is not NULL and is the return label
\* of the END_SCOPE__ expansion that is unwinding, and the body's goto resumes
\* that loop with the cursor on the slot just executed, so the next pass pops the
\* next lower slot (action bodies contain no scope exit).
C15_ActionReturnsToItsUnwind ==
  /\ [](pc = "dtor" =>
          /\ return_label_address # NULL
          /\ site \in Sites
          /\ return_label_address = site)
  /\ [][RunDestructor =>
          /\ pc' = "loop"
          /\ site' = site
          /\ UNCHANGED <<next_label_address, return_label_address,
                         destructor_label_address_stack_end>>
          /\ slotPush[next_label_address] = Last(execLog').push]_vars

C15_Witness ==
  /\ pc = "dtor"
  /\ site = "END_SCOPE_AND_BREAK"
  /\ return_label_address = "END_SCOPE_AND_BREAK"
  /\ execAtStart = 1
  /\ ExecutedHere = 1
  /\ next_label_address = 0

\* C16: in balanced use (every marker an unwind uses was taken by BEGIN_SCOPE
\* at a cursor <= the cursor at the unwind) the assertions of lines 21, 36 and 38
\* hold whenever they are evaluated; the only assertion that can fail is the
\* capacity check of line 22.
C16_OnlyTheCapacityAssertionFails ==
  /\ pc = "run" => 0 <= next_label_address
  /\ pc = "loop" =>
        /\ Last(destructor_label_address_stack_end) < next_label_address
        /\ next_label_address - 1 # Last(destructor_label_address_stack_end) =>
              0 <= next_label_address - 1
  /\ pc = "aborted" =>
        /\ site = "NONE"
        /\ 0 <= next_label_address
        /\ next_label_address >= capacity
  /\ pc # "crashed"

C16_Witness ==
  /\ pc = "aborted"
  /\ capacity = 1
  /\ Executed = 1
  /\ Len(destructor_label_address_stack_end) = 2
  /\ Last(destructor_label_address_stack_end) = 0

\* the pushes whose action has not been executed
PendingNow ==
  {p \in 1..Pushed : \A i \in 1..Executed : execLog[i].push # p}

\* the pushes executed by the current unwind
ExecutedHereSet ==
  {execLog[i].push : i \in (execAtStart + 1)..Executed}

\* C17: a scope entered repeatedly does not accumulate entries: each
\* (BEGIN_SCOPE; J pushes; END_SCOPE) executes exactly the actions pushed since
\* its BEGIN_SCOPE and puts the cursor back to where it was at BEGIN_SCOPE, so
\* the cursor always counts the pending actions only and the capacity
\* assertion fails only when capacity actions are pending.
C17_RepeatedScopeDoesNotAccumulate ==
  /\ pc \in {"run", "aborted"} => next_label_address = Cardinality(PendingNow)
  /\ pc = "aborted" => Cardinality(PendingNow) = capacity
  /\ (Unwound /\ ToMarker) =>
        /\ ExecutedHereSet = {p \in PendingAtStart : p > Last(markedAt)}
        /\ ExecutedHere = Cardinality(ExecutedHereSet)
        /\ next_label_address =
              Cardinality({p \in PendingAtStart : p <= Last(markedAt)})

C17_Witness ==
  /\ pc = "done"
  /\ site = "END_SCOPE"
  /\ capacity = 1
  /\ Pushed = 3
  /\ Last(markedAt) = 2
  /\ execAtStart = 2
  /\ ExecutedHere = 1
  /\ next_label_address = 0

\* C18: exit happens only after the unwind has finished: the return of
\* END_SCOPE_AND_RETURN is taken only with cursor = 0 and every pushed action
\* executed; the break of END_SCOPE_AND_BREAK is taken only with the cursor back
\* at the marker and every action pushed since the marker executed.
C18_ExitOnlyAfterUnwind ==
  /\ [][/\ Return => next_label_address = 0 /\ PendingNow = {}
        /\ (\E k \in 0..Len(destructor_label_address_stack_end) : Break(k)) =>
              /\ {p \in PendingNow : p > Last(markedAt)} = {}
              /\ next_label_address =
                    Cardinality({p \in PendingNow : p <= Last(markedAt)})
              /\ next_label_address = Last(destructor_label_address_stack_end) + 1]_vars
  /\ [](pc = "returned" => next_label_address = 0 /\ PendingNow = {})

C18_Witness ==
  /\ pc = "returned"
  /\ return_label_address = "END_SCOPE_AND_RETURN"
  /\ Len(destructor_label_address_stack_end) = 2
  /\ Pushed = 3
  /\ execAtStart = 1
  /\ Executed = 3

====
